---- MODULE Spec2Model ----
(***************************************************************************)
(* The matchmaking-and-billing engine of lomi_chat, as implemented by the  *)
(* handlers of src/app.py over the "users" table.                          *)
(*                                                                         *)
(* Every handler is a coroutine that awaits each database call; each call  *)
(* takes its own pooled connection and is one statement, with no           *)
(* transaction and no lock around a handler.  A step of the model is one   *)
(* database statement together with the local computation that follows it  *)
(* up to the next await.  update_user_data_async is two statements: the    *)
(* SELECT of the current row and the upsert of the merged row.             *)
(*                                                                         *)
(* Spec lets two handlers be in flight at once and interleaves their      *)
(* statements; SpecSeq runs one handler at a time to completion.           *)
(***************************************************************************)
EXTENDS Integers, Sequences, FiniteSets, TLC

\* ---- bounds of the model ----
MaxOps == 2

\* ---- constants of the program ----
BONUS == 1000
PHOTO_COST == 150
VIDEO_COST == 250

Users == {1, 2, 3}
\* the handlers that can be in flight at once
Slots == {1, 2}
None == "None"
Gender == {"Male", "Female"}
\* two of the five age groups
AgeGroup == {"18-24", "25-34"}
\* lengths of the texts sent
TextLens == {1, 2}
Units == [type : {"text"}, len : TextLens] \cup {[type |-> "photo", len |-> 0], [type |-> "video", len |-> 0]}

\* the users who issue /find, and the buttons they press
Seekers == {1, 2}
GenderChoice == {None}
AgeChoice == {None}

VARIABLES
    db,     \* the users table: user id -> row (ex = FALSE: no row)
    kb,     \* per user, the inline keyboard of the /find dialogue that is on screen
    h,      \* handler slot -> the handler running in it, with its locals
    ops,    \* number of handlers started
    ev,     \* what the last step replied or forwarded
    sqlite, \* the users and conversations tables of database.py
    mysql,  \* the users table of the admin tool
    store   \* the conversation_partner column (TEXT) as each profile store holds it

vars == <<db, kb, h, ops, ev, sqlite, mysql, store>>

\* the sqlite tables after start_conversation(1, 3): conversation 1, client 1
SqliteStarted(client_points) ==
    [points |-> [u \in Users |-> IF u = 1 THEN client_points ELSE BONUS],
     status |-> [u \in Users |-> IF u = 2 THEN "active" ELSE "busy"],
     partner_id |-> [u \in Users |-> IF u = 1 THEN 3 ELSE IF u = 3 THEN 1 ELSE 0],
     conversation_count |-> [u \in Users |-> 0],
     conversations |-> [id \in {1} |-> [client_id |-> 1, partner_id |-> 3, ended |-> FALSE,
                                        client_char_count |-> 0, points_transferred |-> 0]]]

\* the points column of the admin tool's table
MysqlPoints(p1) == [u \in Users |-> IF u = 1 THEN p1 ELSE BONUS]

\* SQL NULL, and Python's None where a column value is passed around
NULL == "NULL"

\* the column before any row has been written: lomi.py's users.db and app.py's Postgres table
NoRows == [lomi |-> [u \in Users |-> NULL], app |-> [u \in Users |-> NULL]]

\* the bot of app.py uses neither ledger; its rows are followed in db, not as column texts
NoLedger == sqlite = SqliteStarted(BONUS) /\ mysql = MysqlPoints(BONUS) /\ store = NoRows

\* ---------------------------------------------------------------------
\* rows
\* ---------------------------------------------------------------------
NoRow ==
    [ex |-> FALSE, points |-> 0, profile_complete |-> FALSE, in_pool |-> FALSE,
     in_conversation |-> FALSE, conversation_partner |-> 0, is_initiator |-> FALSE,
     gender |-> None, age_group |-> None,
     preferred_gender |-> None, preferred_age_group |-> None]

\* a registered user whose profile dialogue is finished (age group skipped)
FreshRow(g) ==
    [NoRow EXCEPT !.ex = TRUE, !.points = BONUS, !.profile_complete = TRUE, !.gender = g]

\* SELECT * FROM users WHERE user_id = $1, normalised; {} when there is no row
get_user_data_async(user_id) == db[user_id]

\* a merge that takes every row to be in a conversation
Merged_in_conversation(current, updates, k, default) ==
    IF k = "in_conversation" THEN TRUE
    ELSE IF k \in DOMAIN updates THEN updates[k]
    ELSE IF current.ex THEN current[k] ELSE default

\* merged = {**current, **updates}, read with the defaults of merged.get
Merged(current, updates, k, default) ==
    IF k \in DOMAIN updates THEN updates[k]
    ELSE IF current.ex THEN current[k] ELSE default

\* the row that the upsert of update_user_data_async writes
UpsertRow(current, updates) ==
    [ex |-> TRUE,
     points |-> Merged(current, updates, "points", BONUS),
     profile_complete |-> Merged(current, updates, "profile_complete", FALSE),
     in_pool |-> Merged(current, updates, "in_pool", FALSE),
     in_conversation |-> Merged(current, updates, "in_conversation", FALSE),
     conversation_partner |-> Merged(current, updates, "conversation_partner", 0),
     is_initiator |-> Merged(current, updates, "is_initiator", FALSE),
     gender |-> Merged(current, updates, "gender", None),
     age_group |-> Merged(current, updates, "age_group", None),
     preferred_gender |-> Merged(current, updates, "preferred_gender", None),
     preferred_age_group |-> Merged(current, updates, "preferred_age_group", None)]

\* ---------------------------------------------------------------------
\* handlers
\* ---------------------------------------------------------------------
Idle ==
    [kind |-> "idle", u |-> 0, pc |-> "-", todo |-> <<>>, current |-> NoRow,
     partner_id |-> 0, is_initiator |-> FALSE, user_points |-> 0,
     unit |-> None, n |-> 0]

\* k: the handler, t: its reply or what it forwarded, u: its user, p: the partner, n: points billed
NoEv == [k |-> "none", t |-> "none", u |-> 0, p |-> 0, n |-> 0]
Ev(k, t, u, p, n) == [k |-> k, t |-> t, u |-> u, p |-> p, n |-> n]

Active == {s \in Slots : h[s].kind # "idle"}
Quiescent == Active = {}

\* a dispatch that starts a handler whenever a slot is free, however many run
FreeSlot_unordered(lim, s) ==
    /\ h[s].kind = "idle"
    /\ \A r \in Slots : r < s => h[r].kind # "idle"
    /\ ops < MaxOps
    /\ ops' = ops + 1
    /\ UNCHANGED <<sqlite, mysql, store>>

\* a new handler runs in the lowest free slot, if fewer than lim are in flight
FreeSlot(lim, s) ==
    /\ Cardinality(Active) < lim
    /\ h[s].kind = "idle"
    /\ \A r \in Slots : r < s => h[r].kind # "idle"
    /\ ops < MaxOps
    /\ ops' = ops + 1
    /\ UNCHANGED <<sqlite, mysql, store>>

\* one call of update_user_data_async still to be made
Upd(user_id, updates) == [t |-> user_id, f |-> updates]

\* a reset that leaves the partner's id in the row
Reset_keeps_partner == [in_conversation |-> FALSE, is_initiator |-> FALSE]

\* a reset that also takes the row out of the pool
Reset_out_of_pool ==
    [in_conversation |-> FALSE, conversation_partner |-> 0, is_initiator |-> FALSE,
     in_pool |-> FALSE]

\* the session attributes /end and /report write
Reset == [in_conversation |-> FALSE, conversation_partner |-> 0, is_initiator |-> FALSE]

\* a pairing that gives the roles the other way round
Bind_swapped(partner, initiator) ==
    [in_conversation |-> TRUE, conversation_partner |-> partner, is_initiator |-> ~initiator]

\* the session attributes a pairing writes
Bind(partner, initiator) ==
    [in_conversation |-> TRUE, conversation_partner |-> partner, is_initiator |-> initiator]

\* the handler in slot s starts with these locals; its first statement has been made
Running(s, locals) == h' = [h EXCEPT ![s] = locals]
Finished(s) == h' = [h EXCEPT ![s] = Idle]

\* the handler only replies: nothing is written and no slot stays taken
Reply(e) ==
    /\ ev' = e
    /\ UNCHANGED <<db, kb, h>>

\* Everyone has registered, finished the profile dialogue and joined the pool; the
\* seekers have asked for /find and chosen a gender, so their age keyboard is up.
Unbound ==
    [u \in Users |-> [FreshRow(IF u % 2 = 1 THEN "Male" ELSE "Female") EXCEPT !.in_pool = TRUE]]

\* Seeker 1 has then found user 3; `spent` is what 1 has paid 3 for texts so far,
\* less what 3 paid 1 in an earlier session of theirs that 3 started.
Paired(spent) ==
    [Unbound EXCEPT
        ![1] = [UpsertRow(Unbound[1], Bind(3, TRUE)) EXCEPT !.points = BONUS - spent],
        ![3] = [UpsertRow(Unbound[3], Bind(1, FALSE)) EXCEPT !.points = BONUS + spent]]

Init ==
    /\ \/ /\ db = Unbound
          /\ kb = [u \in Users |-> IF u \in Seekers THEN "age" ELSE "none"]
       \/ /\ db \in {Paired(0), Paired(BONUS - 1), Paired(0 - BONUS)}
          /\ kb = [u \in Users |-> IF u = 2 THEN "age" ELSE "none"]
    /\ h = [s \in Slots |-> Idle]
    /\ ops = 0
    /\ NoLedger
    /\ ev = NoEv

\* ---------------------------------------------------------------------
\* update_user_data_async: SELECT the current row, then upsert the merged row
\* ---------------------------------------------------------------------
\* a SELECT that waits until no other handler has an update left to make
update_user_data_async_select_waits(s) ==
    /\ h[s].pc = "select"
    /\ \A r \in Slots \ {s} : h[r].todo = <<>>
    /\ Running(s, [h[s] EXCEPT !.pc = "upsert",
                               !.current = get_user_data_async(Head(h[s].todo).t)])
    /\ ev' = NoEv
    /\ UNCHANGED <<db, kb, ops, sqlite, mysql, store>>

\* update_user_data_async, first statement: the SELECT of the current row
update_user_data_async_select(s) ==
    /\ h[s].pc = "select"
    /\ Running(s, [h[s] EXCEPT !.pc = "upsert",
                               !.current = get_user_data_async(Head(h[s].todo).t)])
    /\ ev' = NoEv
    /\ UNCHANGED <<db, kb, ops, sqlite, mysql, store>>

\* a handler that writes the sender's old balance back when forwarding fails
AfterUpdates_refund(s) ==
    LET me == h[s] IN
    /\ Running(s, [me EXCEPT !.pc = "select",
                             !.todo = <<Upd(me.u, [points |-> me.user_points])>>])
    /\ ev' = Ev(me.kind, "forward_failed", me.u, me.partner_id, me.n)
    /\ UNCHANGED kb

\* what a handler does once its last pending update is written
AfterUpdates(s) ==
    LET me == h[s] IN
    CASE me.kind = "gender_pref" ->
            \* edit_message_text: the age keyboard replaces the gender keyboard
            /\ kb' = [kb EXCEPT ![me.u] = "age"]
            /\ Finished(s)
            /\ ev' = Ev("gender_pref", "ask_age", me.u, 0, 0)
      [] me.kind = "age_pref" /\ me.partner_id = 0 ->
            \* edit_message_text("Searching..."): the keyboard is gone
            /\ kb' = [kb EXCEPT ![me.u] = "none"]
            /\ Running(s, [me EXCEPT !.pc = "find", !.todo = <<>>])
            /\ ev' = NoEv
      [] me.kind = "age_pref" /\ me.partner_id # 0 ->
            /\ Finished(s)
            /\ ev' = Ev("age_pref", "matched", me.u, me.partner_id, 0)
            /\ UNCHANGED kb
      [] me.kind = "message" ->
            \* context.bot.send_message / send_photo / send_video may fail
            /\ Finished(s)
            /\ \E ok \in BOOLEAN :
                 ev' = Ev("message", IF ok THEN "forwarded" ELSE "forward_failed",
                          me.u, me.partner_id, me.n)
            /\ UNCHANGED kb
      [] me.kind = "profile_age" ->
            \* edit_message_text("Your profile is now complete!"): the keyboard is gone
            /\ kb' = [kb EXCEPT ![me.u] = "none"]
            /\ Finished(s)
            /\ ev' = Ev("profile_age", "done", me.u, 0, 0)
      [] OTHER ->
            \* start, join, leave, end, report: reply and return
            /\ Finished(s)
            /\ ev' = Ev(me.kind, "done", me.u, me.partner_id, 0)
            /\ UNCHANGED kb

update_user_data_async_upsert(s) ==
    /\ h[s].pc = "upsert"
    /\ LET call == Head(h[s].todo) IN
       db' = [db EXCEPT ![call.t] = UpsertRow(h[s].current, call.f)]
    /\ IF Len(h[s].todo) > 1
       THEN /\ Running(s, [h[s] EXCEPT !.pc = "select", !.todo = Tail(h[s].todo)])
            /\ ev' = NoEv
            /\ UNCHANGED kb
       ELSE AfterUpdates(s)
    /\ UNCHANGED <<ops, sqlite, mysql, store>>

\* ---------------------------------------------------------------------
\* pool
\* ---------------------------------------------------------------------
\* /join
join_pool(lim, u) ==
    \E s \in Slots :
        /\ FreeSlot(lim, s)
        /\ LET user_data == get_user_data_async(u) IN
           IF ~user_data.ex THEN Reply(Ev("join", "not_registered", u, 0, 0))
           ELSE IF ~user_data.profile_complete THEN Reply(Ev("join", "profile_incomplete", u, 0, 0))
           ELSE IF user_data.in_pool THEN Reply(Ev("join", "already_in_pool", u, 0, 0))
           ELSE /\ Running(s, [Idle EXCEPT !.kind = "join", !.u = u, !.pc = "select",
                                           !.todo = <<Upd(u, [in_pool |-> TRUE])>>])
                /\ ev' = NoEv
                /\ UNCHANGED <<db, kb>>

\* a /leave that writes the user into the pool
leave_pool_stays(lim, u) ==
    \E s \in Slots :
        /\ FreeSlot(lim, s)
        /\ LET user_data == get_user_data_async(u) IN
           IF ~user_data.ex THEN Reply(Ev("leave", "not_registered", u, 0, 0))
           ELSE IF ~user_data.in_pool THEN Reply(Ev("leave", "not_in_pool", u, 0, 0))
           ELSE /\ Running(s, [Idle EXCEPT !.kind = "leave", !.u = u, !.pc = "select",
                                           !.todo = <<Upd(u, [in_pool |-> TRUE])>>])
                /\ ev' = NoEv
                /\ UNCHANGED <<db, kb>>

\* /leave
leave_pool(lim, u) ==
    \E s \in Slots :
        /\ FreeSlot(lim, s)
        /\ LET user_data == get_user_data_async(u) IN
           IF ~user_data.ex THEN Reply(Ev("leave", "not_registered", u, 0, 0))
           ELSE IF ~user_data.in_pool THEN Reply(Ev("leave", "not_in_pool", u, 0, 0))
           ELSE /\ Running(s, [Idle EXCEPT !.kind = "leave", !.u = u, !.pc = "select",
                                           !.todo = <<Upd(u, [in_pool |-> FALSE])>>])
                /\ ev' = NoEv
                /\ UNCHANGED <<db, kb>>

\* ---------------------------------------------------------------------
\* pairing
\* ---------------------------------------------------------------------
\* /find: the eligibility checks, then the gender keyboard
find_partner_cmd(lim, u) ==
    \E s \in Slots :
        /\ FreeSlot(lim, s)
        /\ UNCHANGED <<db, h>>
        /\ LET user_data == get_user_data_async(u) IN
           IF ~user_data.ex THEN
               ev' = Ev("find", "not_registered", u, 0, 0) /\ UNCHANGED kb
           ELSE IF ~user_data.profile_complete THEN
               ev' = Ev("find", "profile_incomplete", u, 0, 0) /\ UNCHANGED kb
           ELSE IF ~user_data.in_pool THEN
               ev' = Ev("find", "not_in_pool", u, 0, 0) /\ UNCHANGED kb
           ELSE IF user_data.in_conversation THEN
               ev' = Ev("find", "already_bound", u, 0, 0) /\ UNCHANGED kb
           ELSE
               ev' = Ev("find", "ask_gender", u, 0, 0) /\ kb' = [kb EXCEPT ![u] = "gender"]

\* a button of the gender keyboard: pref is None for "Any gender"
handle_gender_preference(lim, u, pref) ==
    \E s \in Slots :
        /\ FreeSlot(lim, s)
        /\ kb[u] = "gender"
        /\ Running(s, [Idle EXCEPT !.kind = "gender_pref", !.u = u, !.pc = "upsert",
                                   !.todo = <<Upd(u, [preferred_gender |-> pref])>>,
                                   !.current = get_user_data_async(u)])
        /\ ev' = NoEv
        /\ UNCHANGED <<db, kb>>

\* a button of the age keyboard: pref is None for "Any age"
handle_age_preference(lim, u, pref) ==
    \E s \in Slots :
        /\ FreeSlot(lim, s)
        /\ kb[u] = "age"
        /\ Running(s, [Idle EXCEPT !.kind = "age_pref", !.u = u, !.pc = "upsert",
                                   !.todo = <<Upd(u, [preferred_age_group |-> pref])>>,
                                   !.current = get_user_data_async(u)])
        /\ ev' = NoEv
        /\ UNCHANGED <<db, kb>>

\* a search that does not look at the seeker's own row
find_partner_async_user_unchecked(s) ==
    /\ h[s].pc = "find"
    /\ Running(s, [h[s] EXCEPT !.pc = "scan", !.current = get_user_data_async(h[s].u)])
    /\ ev' = NoEv
    /\ UNCHANGED <<db, kb, ops, sqlite, mysql, store>>

\* find_partner_async, first statement: the seeker's own row
find_partner_async_user(s) ==
    /\ h[s].pc = "find"
    /\ LET current_user == get_user_data_async(h[s].u) IN
       IF ~current_user.ex \/ ~current_user.in_pool
       THEN /\ Finished(s)
            /\ ev' = Ev("age_pref", "no_match", h[s].u, 0, 0)
       ELSE /\ Running(s, [h[s] EXCEPT !.pc = "scan", !.current = current_user])
            /\ ev' = NoEv
    /\ UNCHANGED <<db, kb, ops, sqlite, mysql, store>>

\* a loop test that forgets the age-group filter
Qualifies_no_age(user_id, pref_gender, pref_age, uid, u) ==
    /\ uid # user_id
    /\ u.in_pool
    /\ ~u.in_conversation
    /\ u.profile_complete
    /\ ~(pref_gender # None /\ pref_gender # u.gender)

\* a loop test that does not skip the requester's own row
Qualifies_self(user_id, pref_gender, pref_age, uid, u) ==
    /\ u.in_pool
    /\ ~u.in_conversation
    /\ u.profile_complete
    /\ ~(pref_gender # None /\ pref_gender # u.gender)
    /\ ~(pref_age # None /\ pref_age # u.age_group)

\* the test find_partner_async applies to a row u of all_users
Qualifies(user_id, pref_gender, pref_age, uid, u) ==
    /\ uid # user_id
    /\ u.in_pool
    /\ ~u.in_conversation
    /\ u.profile_complete
    /\ ~(pref_gender # None /\ pref_gender # u.gender)
    /\ ~(pref_age # None /\ pref_age # u.age_group)

\* the rows of all_users that pass the test
Candidates(user_id, current_user, all_users) ==
    {uid \in {c \in Users : all_users[c].ex} :
        Qualifies(user_id, current_user.preferred_gender,
                  current_user.preferred_age_group, uid, all_users[uid])}

\* a scan that marks the user it picks as taken before it returns
find_partner_async_scan_marks(s) ==
    /\ h[s].pc = "scan"
    /\ LET found == Candidates(h[s].u, h[s].current, db) IN
       IF found = {}
       THEN /\ Finished(s)
            /\ ev' = Ev("age_pref", "no_match", h[s].u, 0, 0)
            /\ UNCHANGED db
       ELSE \E partner_id \in found :
            /\ Running(s, [h[s] EXCEPT !.pc = "select", !.partner_id = partner_id])
            /\ db' = [db EXCEPT ![partner_id].in_pool = FALSE]
            /\ ev' = NoEv
    /\ UNCHANGED <<kb, ops, sqlite, mysql, store>>

\* find_partner_async, second statement: SELECT * FROM users, then the loop.  The
\* SELECT has no ORDER BY, so the first row that passes is any row that passes.
find_partner_async_scan(s) ==
    /\ h[s].pc = "scan"
    /\ LET found == Candidates(h[s].u, h[s].current, db) IN
       IF found = {}
       THEN /\ Finished(s)
            /\ ev' = Ev("age_pref", "no_match", h[s].u, 0, 0)
       ELSE \E partner_id \in found :
            /\ Running(s, [h[s] EXCEPT
                    !.pc = "select", !.partner_id = partner_id,
                    !.todo = <<Upd(h[s].u, Bind(partner_id, TRUE)),
                               Upd(partner_id, Bind(h[s].u, FALSE))>>])
            /\ ev' = NoEv
    /\ UNCHANGED <<db, kb, ops, sqlite, mysql, store>>

\* ---------------------------------------------------------------------
\* session
\* ---------------------------------------------------------------------
\* an /end that resets the requester only
end_conversation_requester_only(lim, u) ==
    \E s \in Slots :
        /\ FreeSlot(lim, s)
        /\ LET user_data == get_user_data_async(u)
               partner_id == user_data.conversation_partner IN
           IF ~user_data.ex \/ ~user_data.in_conversation
           THEN Reply(Ev("end", "not_bound", u, 0, 0))
           ELSE /\ Running(s, [Idle EXCEPT
                       !.kind = "end", !.u = u, !.pc = "select", !.partner_id = partner_id,
                       !.todo = <<Upd(u, Reset)>>])
                /\ ev' = NoEv
                /\ UNCHANGED <<db, kb>>

\* /end
end_conversation(lim, u) ==
    \E s \in Slots :
        /\ FreeSlot(lim, s)
        /\ LET user_data == get_user_data_async(u)
               partner_id == user_data.conversation_partner IN
           IF ~user_data.ex \/ ~user_data.in_conversation
           THEN Reply(Ev("end", "not_bound", u, 0, 0))
           ELSE /\ Running(s, [Idle EXCEPT
                       !.kind = "end", !.u = u, !.pc = "select", !.partner_id = partner_id,
                       !.todo = <<Upd(u, Reset)>> \o
                                (IF partner_id # 0 THEN <<Upd(partner_id, Reset)>> ELSE <<>>)])
                /\ ev' = NoEv
                /\ UNCHANGED <<db, kb>>

\* a /report that resets the reporter only
report_user_reporter_only(lim, u) ==
    \E s \in Slots :
        /\ FreeSlot(lim, s)
        /\ LET user_data == get_user_data_async(u)
               partner_id == user_data.conversation_partner IN
           IF ~user_data.ex \/ ~user_data.in_conversation
           THEN Reply(Ev("report", "not_bound", u, 0, 0))
           ELSE IF partner_id = 0 THEN Reply(Ev("report", "no_partner", u, 0, 0))
           ELSE /\ Running(s, [Idle EXCEPT
                       !.kind = "report", !.u = u, !.pc = "select", !.partner_id = partner_id,
                       !.todo = <<Upd(u, Reset)>>])
                /\ ev' = NoEv
                /\ UNCHANGED <<db, kb>>

\* /report
report_user(lim, u) ==
    \E s \in Slots :
        /\ FreeSlot(lim, s)
        /\ LET user_data == get_user_data_async(u)
               partner_id == user_data.conversation_partner IN
           IF ~user_data.ex \/ ~user_data.in_conversation
           THEN Reply(Ev("report", "not_bound", u, 0, 0))
           ELSE IF partner_id = 0 THEN Reply(Ev("report", "no_partner", u, 0, 0))
           ELSE /\ Running(s, [Idle EXCEPT
                       !.kind = "report", !.u = u, !.pc = "select", !.partner_id = partner_id,
                       !.todo = <<Upd(u, Reset), Upd(partner_id, Reset)>>])
                /\ ev' = NoEv
                /\ UNCHANGED <<db, kb>>

\* a tariff with one price for photos and videos
Cost_one_price(unit, is_initiator) ==
    CASE unit.type = "text" -> unit.len
      [] unit.type = "photo" -> IF is_initiator THEN PHOTO_COST ELSE 0
      [] unit.type = "video" -> IF is_initiator THEN PHOTO_COST ELSE 0

\* a tariff of two points per character
Cost_double(unit, is_initiator) ==
    CASE unit.type = "text" -> 2 * unit.len
      [] unit.type = "photo" -> IF is_initiator THEN PHOTO_COST ELSE 0
      [] unit.type = "video" -> IF is_initiator THEN VIDEO_COST ELSE 0

\* what a unit costs its sender: one point per character, a flat cost per photo or video
Cost(unit, is_initiator) ==
    CASE unit.type = "text" -> unit.len
      [] unit.type = "photo" -> IF is_initiator THEN PHOTO_COST ELSE 0
      [] unit.type = "video" -> IF is_initiator THEN VIDEO_COST ELSE 0

\* billing with the balance check left out
NotEnoughPoints_unchecked(user_points, cost) == FALSE

\* billing that refuses only an empty balance
NotEnoughPoints_empty_only(user_points, cost) == user_points = 0 /\ cost > 0

\* the guard of the billing branch: "Not enough points"
NotEnoughPoints(user_points, cost) == user_points < cost

\* a text, photo or video arrives from u: the sender's row
handle_message(lim, u, unit) ==
    \E s \in Slots :
        /\ FreeSlot(lim, s)
        /\ LET user_data == get_user_data_async(u)
               partner_id == user_data.conversation_partner IN
           IF ~user_data.in_conversation THEN Reply(Ev("message", "not_bound", u, 0, 0))
           ELSE IF partner_id = 0 THEN Reply(Ev("message", "no_partner", u, 0, 0))
           ELSE /\ Running(s, [Idle EXCEPT
                       !.kind = "message", !.u = u, !.pc = "partner", !.unit = unit,
                       !.partner_id = partner_id,
                       !.is_initiator = user_data.is_initiator,
                       !.user_points = user_data.points])
                /\ ev' = NoEv
                /\ UNCHANGED <<db, kb>>

\* a handler that hands the initiator's unit to forwarding before it bills
handle_message_partner_forward_first(s) ==
    /\ h[s].pc = "partner"
    /\ LET me == h[s]
           partner_data == get_user_data_async(me.partner_id)
           cost == Cost(me.unit, me.is_initiator) IN
       IF me.is_initiator
       THEN /\ Running(s, [me EXCEPT
                   !.pc = "select", !.n = cost,
                   !.todo = <<Upd(me.u, [points |-> me.user_points - cost]),
                              Upd(me.partner_id, [points |-> partner_data.points + cost])>>])
            /\ ev' = Ev("message", "forwarded", me.u, me.partner_id, cost)
       ELSE /\ Finished(s)
            /\ ev' = Ev("message", "forwarded", me.u, me.partner_id, 0)
    /\ UNCHANGED <<db, kb, ops, sqlite, mysql, store>>

\* handle_message, second statement: the partner's row, then the billing decision
handle_message_partner(s) ==
    /\ h[s].pc = "partner"
    /\ LET me == h[s]
           partner_data == get_user_data_async(me.partner_id)
           cost == Cost(me.unit, me.is_initiator) IN
       IF me.is_initiator
       THEN IF NotEnoughPoints(me.user_points, cost)
            THEN /\ Finished(s)
                 /\ ev' = Ev("message", "insufficient", me.u, me.partner_id, cost)
            ELSE /\ Running(s, [me EXCEPT
                        !.pc = "select", !.n = cost,
                        !.todo = <<Upd(me.u, [points |-> me.user_points - cost]),
                                   Upd(me.partner_id, [points |-> partner_data.points + cost])>>])
                 /\ ev' = NoEv
       ELSE /\ Finished(s)
            /\ \E ok \in BOOLEAN :
                 ev' = Ev("message", IF ok THEN "forwarded" ELSE "forward_failed", me.u, me.partner_id, 0)
    /\ UNCHANGED <<db, kb, ops, sqlite, mysql, store>>

\* ---------------------------------------------------------------------
\* specifications
\* ---------------------------------------------------------------------

Next(lim) ==
    \/ \E u \in Users : join_pool(lim, u)
    \/ \E u \in Users : leave_pool(lim, u)
    \/ \E u \in Seekers : find_partner_cmd(lim, u)
    \/ \E u \in Seekers, pref \in GenderChoice : handle_gender_preference(lim, u, pref)
    \/ \E u \in Seekers, pref \in AgeChoice : handle_age_preference(lim, u, pref)
    \/ \E u \in Users : end_conversation(lim, u)
    \/ \E u \in Users : report_user(lim, u)
    \/ \E u \in Users, unit \in Units : handle_message(lim, u, unit)
    \/ \E s \in Slots : update_user_data_async_select(s)
    \/ \E s \in Slots : update_user_data_async_upsert(s)
    \/ \E s \in Slots : find_partner_async_user(s)
    \/ \E s \in Slots : find_partner_async_scan(s)
    \/ \E s \in Slots : handle_message_partner(s)

\* handlers interleave at their awaits
Spec == Init /\ [][Next(Cardinality(Slots))]_vars

\* one handler at a time, each run to completion
SpecSeq == Init /\ [][Next(1)]_vars

\* ---------------------------------------------------------------------
\* properties
\* ---------------------------------------------------------------------
RECURSIVE SumPoints(_)
SumPoints(S) ==
    IF S = {} THEN 0
    ELSE LET u == CHOOSE x \in S : TRUE IN db[u].points + SumPoints(S \ {u})

\* the points of all users together
TotalPoints == SumPoints(Users)

\* C1: whenever no handler is in flight, the points of all users together are what
\* registration handed out: billed units only moved points between users.
Conservation == Quiescent => TotalPoints = BONUS * Cardinality(Users)

\* C2: no user's balance is ever negative.
NoNegativeBalance == \A u \in Users : db[u].points >= 0

\* a billed unit was forwarded and took the sender's balance to exactly zero
SpentToZero ==
    /\ ev.k = "message" /\ ev.t = "forwarded" /\ ev.n > 0
    /\ db[ev.u].points = 0

\* the users whose row says they started the session with p
InitiatorsOf(p) ==
    {s \in Users : /\ db[s].in_conversation
                   /\ db[s].is_initiator
                   /\ db[s].conversation_partner = p}

\* C3: no pooled user is bound by two pairing attempts: at most one seeker holds
\* any given user as the partner it found.
PairingExclusivity == \A p \in Users : Cardinality(InitiatorsOf(p)) <= 1

\* u's row names a partner whose row names u back
PointsBack(u) ==
    db[u].conversation_partner # 0 =>
        /\ db[db[u].conversation_partner].ex
        /\ db[db[u].conversation_partner].conversation_partner = u

\* C4: whenever no handler is in flight, every user that has a partner is the
\* partner of that partner.
Symmetry == Quiescent => \A u \in Users : PointsBack(u)

\* C5: a successful pairing leaves neither the seeker nor the found partner in
\* the pool.
MatchLeavesPool ==
    (ev.k = "age_pref" /\ ev.t = "matched") =>
        /\ ~db[ev.u].in_pool
        /\ ~db[ev.p].in_pool

\* C6: for every user, in_conversation is set exactly when a partner is recorded,
\* and the initiator role is set only inside a conversation.
SessionAttributes ==
    \A u \in Users :
        /\ db[u].in_conversation <=> db[u].conversation_partner # 0
        /\ db[u].is_initiator => db[u].in_conversation

\* a pairing has just bound the seeker to the partner it found
JustMatched ==
    /\ ev.k = "age_pref" /\ ev.t = "matched"
    /\ db[ev.u].in_conversation /\ db[ev.u].conversation_partner = ev.p
    /\ db[ev.p].in_conversation /\ db[ev.p].conversation_partner = ev.u
    /\ db[ev.u].is_initiator /\ ~db[ev.p].is_initiator

\* a handler for u is between two of its statements
Pending(kind, u) == {s \in Slots : h[s].kind = kind /\ h[s].u = u}

MessageStep(s) == h[s].kind = "message" /\ h'[s] # h[s]

\* the rows other than those of the users in S stay as they are
OthersUnchanged(S) == \A v \in Users \ S : db'[v] = db[v]

\* C8: a unit sent by the initiator takes exactly its cost from the initiator's
\* points, with the first write, and adds exactly its cost to the partner's
\* points, with the second; the cost of a text is its number of characters.  A
\* unit sent by the other side goes to forwarding with no row changed, whatever
\* the sender's points.
BillingAsymmetry ==
    [][\A s \in Slots : MessageStep(s) =>
          LET me == h[s]
              N == IF me.unit.type = "text" THEN me.unit.len
                   ELSE IF me.unit.type = "photo" THEN PHOTO_COST ELSE VIDEO_COST IN
          /\ (me.pc = "partner" /\ ~me.is_initiator) =>
                 /\ db' = db
                 /\ ev'.k = "message" /\ ev'.t \in {"forwarded", "forward_failed"}
                 /\ ev'.n = 0
          /\ (me.pc = "partner" /\ me.is_initiator) => db' = db
          /\ (me.pc = "upsert" /\ Len(me.todo) = 2) =>
                 /\ db'[me.u].points = db[me.u].points - N
                 /\ db'[me.partner_id].points = db[me.partner_id].points
                 /\ OthersUnchanged({me.u})
          /\ (me.pc = "upsert" /\ Len(me.todo) = 1) =>
                 /\ db'[me.partner_id].points = db[me.partner_id].points + N
                 /\ db'[me.u].points = db[me.u].points
                 /\ OthersUnchanged({me.partner_id})
                 /\ ev'.n = N]_vars

\* initiator 1 sent "hi" to 3, both having started with the registration bonus
ScenarioA ==
    /\ ev.k = "message" /\ ev.t = "forwarded" /\ ev.u = 1 /\ ev.p = 3 /\ ev.n = 2
    /\ db[1].points = BONUS - 2
    /\ db[3].points = BONUS + 2
    /\ db[2].points = BONUS

\* C9: when the initiator's points are less than the cost of the unit, the
\* handler ends with the "not enough points" reply, no row changes and nothing is
\* forwarded.
InsufficientFunds ==
    [][\A s \in Slots :
          (/\ MessageStep(s)
           /\ h[s].pc = "partner"
           /\ h[s].is_initiator
           /\ h[s].user_points < Cost(h[s].unit, TRUE)) =>
              /\ db' = db
              /\ h'[s] = Idle
              /\ ev' = Ev("message", "insufficient", h[s].u, h[s].partner_id,
                          Cost(h[s].unit, TRUE))]_vars

\* a unit was refused for lack of points, and the sender still has some
ScenarioB ==
    /\ ev.k = "message" /\ ev.t = "insufficient"
    /\ db[ev.u].points > 0 /\ db[ev.u].points < ev.n
    /\ db[ev.u].points + db[ev.p].points = 2 * BONUS

\* C10: right after an /end of a pair went through, a step of a message handler
\* of either side that was still pending changes neither side's points and
\* leaves both unbound.
EndAtomic ==
    [][(ev.k = "end" /\ ev.t = "done" /\ ev.p # 0) =>
          \A s \in Slots :
              (MessageStep(s) /\ h[s].u \in {ev.u, ev.p}) =>
                  /\ db'[ev.u].points = db[ev.u].points
                  /\ db'[ev.p].points = db[ev.p].points
                  /\ ~db'[ev.u].in_conversation
                  /\ ~db'[ev.p].in_conversation]_vars

\* the other side of a session, having no points at all, had its text forwarded
FreeReply ==
    /\ ev.k = "message" /\ ev.t = "forwarded" /\ ev.n = 0
    /\ db[ev.u].points = 0
    /\ ~db[ev.u].is_initiator /\ db[ev.u].in_conversation

\* the pairing handler of slot s writes the seeker's own binding
SeekerBound(s) ==
    /\ h[s].kind = "age_pref" /\ h[s].pc = "upsert" /\ h[s].partner_id # 0
    /\ Len(h[s].todo) = 2
    /\ h'[s] # h[s]

\* C11: when a pairing writes the seeker's binding, the seeker's row has a
\* complete profile, is in the pool and is not in a conversation.
SeekerEligible ==
    [][\A s \in Slots : SeekerBound(s) =>
          /\ db[h[s].u].profile_complete
          /\ db[h[s].u].in_pool
          /\ ~db[h[s].u].in_conversation]_vars

\* both sides of a session record each other
Mutual(u, p) ==
    /\ db[u].in_conversation /\ db[u].conversation_partner = p
    /\ db[p].in_conversation /\ db[p].conversation_partner = u

start_bonus_again(lim, u) ==
    \E s \in Slots :
        /\ FreeSlot(lim, s)
        /\ Running(s, [Idle EXCEPT !.kind = "start", !.u = u, !.pc = "select",
                                   !.todo = <<Upd(u, [points |-> BONUS])>>])
        /\ ev' = NoEv
        /\ UNCHANGED <<db, kb>>

\* /start: a new user gets a row with the bonus; a known one may have a new
\* username stored, which is none of the columns kept here
start(lim, u) ==
    \E s \in Slots :
        /\ FreeSlot(lim, s)
        /\ LET user_data == get_user_data_async(u) IN
           IF ~user_data.ex
           THEN /\ Running(s, [Idle EXCEPT
                       !.kind = "start", !.u = u, !.pc = "select",
                       !.todo = <<Upd(u, [points |-> BONUS, profile_complete |-> FALSE,
                                          in_pool |-> FALSE, in_conversation |-> FALSE,
                                          conversation_partner |-> 0])>>])
                /\ ev' = NoEv
                /\ UNCHANGED <<db, kb>>
           ELSE \/ Reply(Ev("start", "welcome_back", u, 0, 0))
                \/ /\ Running(s, [Idle EXCEPT !.kind = "start", !.u = u, !.pc = "select",
                                              !.todo = <<Upd(u, <<>>)>>])
                   /\ ev' = NoEv
                   /\ UNCHANGED <<db, kb>>

\* the buttons of the profile dialogue's age keyboard, "Skip for now" being None
ProfileAge == AgeGroup \cup {None}

\* button_handler, "age_" branch: the last step of the profile dialogue
button_handler_age(lim, u, age) ==
    \E s \in Slots :
        /\ FreeSlot(lim, s)
        /\ kb[u] = "profile_age"
        /\ Running(s, [Idle EXCEPT
               !.kind = "profile_age", !.u = u, !.pc = "select",
               !.todo = (IF age # None THEN <<Upd(u, [age_group |-> age])>> ELSE <<>>)
                        \o <<Upd(u, [profile_complete |-> TRUE])>>])
        /\ ev' = NoEv
        /\ UNCHANGED <<db, kb>>

\* the rows user 2 can have before it ever joins, and after: none, registered,
\* profile complete, in the pool
PoolRows ==
    {NoRow,
     [NoRow EXCEPT !.ex = TRUE, !.points = BONUS],
     [FreshRow("Female") EXCEPT !.in_pool = FALSE],
     [FreshRow("Female") EXCEPT !.in_pool = TRUE]}

\* Users 1 and 3 are in the pool, free or in a session that 1 started; user 2 is
\* anywhere on its way into the pool, possibly with the age keyboard of the
\* profile dialogue or of an earlier /find open.
InitPool ==
    /\ \E row \in PoolRows, spent \in {0, BONUS - 1}, paired \in BOOLEAN :
         db = [(IF paired THEN Paired(spent) ELSE Unbound) EXCEPT ![2] = row]
    /\ \E k1 \in {"none", "age"}, k2 \in {"none", "age", "profile_age"} :
         /\ k1 = "age" => ~db[1].in_conversation
         /\ k2 # "none" => db[2].ex
         /\ kb = [u \in Users |-> IF u = 1 THEN k1 ELSE IF u = 2 THEN k2 ELSE "none"]
    /\ h = [s \in Slots |-> Idle]
    /\ ops = 0
    /\ NoLedger
    /\ ev = NoEv

NextPool ==
    \/ Next(1)
    \/ \E u \in Users : start(1, u)
    \/ \E u \in Users, age \in ProfileAge : button_handler_age(1, u, age)

\* one handler at a time, from every stage of registration
SpecPool == InitPool /\ [][NextPool]_vars

\* ---------------------------------------------------------------------
\* the search on its own
\* ---------------------------------------------------------------------
\* the rows a user other than the requester can have: none, or a registered one
\* anywhere in the profile dialogue, in or out of the pool, in a conversation or not
SearchRows ==
    {NoRow} \cup
    {[FreshRow(g) EXCEPT !.age_group = a, !.profile_complete = c, !.in_pool = ip,
                         !.in_conversation = ic,
                         !.conversation_partner = IF ic THEN 1 ELSE 0] :
        g \in Gender \cup {None}, a \in AgeGroup \cup {None},
        c \in BOOLEAN, ip \in BOOLEAN, ic \in BOOLEAN}

\* the rows of the requester: none, or one with its two preferences stored
RequesterRows ==
    {NoRow} \cup
    {[FreshRow("Male") EXCEPT !.in_pool = ip, !.preferred_gender = pg,
                              !.preferred_age_group = pa] :
        ip \in BOOLEAN, pg \in Gender \cup {None}, pa \in AgeGroup \cup {None}}

\* user 1 has pressed an age button and its preference is stored: the search is next
InitSearch ==
    /\ db \in {d \in [Users -> SearchRows \cup RequesterRows] :
                  d[1] \in RequesterRows /\ \A u \in Users \ {1} : d[u] \in SearchRows}
    /\ kb = [u \in Users |-> "none"]
    /\ h = [s \in Slots |-> IF s = 1 THEN [Idle EXCEPT !.kind = "age_pref", !.u = 1, !.pc = "find"]
                            ELSE Idle]
    /\ ops = 0
    /\ NoLedger
    /\ ev = NoEv

NextSearch ==
    \/ find_partner_async_user(1)
    \/ find_partner_async_scan(1)

SpecSearch == InitSearch /\ [][NextSearch]_vars

\* the search of slot 1 has returned a partner
Found == h[1].kind = "age_pref" /\ h[1].pc = "select" /\ h[1].partner_id # 0

\* C13: the user the search returns is not the requester, is in the pool, is not
\* in a conversation, has a complete profile and has the gender and the age group
\* the requester asked for, where it asked for one; and the search returns
\* nobody only when the requester is not in the pool or no user is like that.
SearchQualification ==
    LET me == db[1]
        Good(c) ==
            /\ c # 1
            /\ db[c].ex /\ db[c].in_pool /\ ~db[c].in_conversation /\ db[c].profile_complete
            /\ (me.preferred_gender # None => db[c].gender = me.preferred_gender)
            /\ (me.preferred_age_group # None => db[c].age_group = me.preferred_age_group)
    IN  /\ Found => Good(h[1].partner_id)
        /\ (ev.k = "age_pref" /\ ev.t = "no_match") =>
               \/ ~me.ex
               \/ ~me.in_pool
               \/ \A c \in Users : ~Good(c)

\* the search returned user 3 for both filters set, passing over user 2, who is
\* free and in the pool but of the other gender
FilteredSearch ==
    /\ Found /\ h[1].partner_id = 3
    /\ db[1].preferred_gender = "Female" /\ db[1].preferred_age_group = "18-24"
    /\ db[2].in_pool /\ ~db[2].in_conversation /\ db[2].profile_complete
    /\ db[2].gender = "Male" /\ db[2].age_group = "18-24"

\* a pairing handler is writing the binding of u, as its seeker or as the user it found
PairingWrites(u) ==
    \E s \in Slots :
        /\ h[s].kind = "age_pref" /\ h[s].pc = "upsert" /\ h[s].partner_id # 0
        /\ Head(h[s].todo).t = u
        /\ u \in {h[s].u, h[s].partner_id}
        /\ h'[s] # h[s]

\* C14: a row goes from not in a conversation to in a conversation only by the
\* write of a pairing that found a partner, for its seeker or the user it found.
OnlyPairingBinds ==
    [][\A u \in Users :
          (~db[u].in_conversation /\ db'[u].in_conversation) => PairingWrites(u)]_vars

\* user 2 went through /start or the profile dialogue and through a pairing as
\* the user found, and is bound
BoundByPairing ==
    /\ ev.k = "age_pref" /\ ev.t = "matched" /\ ev.p = 2
    /\ db[2].in_conversation /\ db[2].conversation_partner = ev.u
    /\ kb[2] = "none" /\ db[2].age_group # None

\* C16: a /join that went through was asked by a user with a complete profile
\* who is in no conversation.
JoinPreconditions ==
    (ev.k = "join" /\ ev.t = "done") =>
        /\ db[ev.u].ex
        /\ db[ev.u].profile_complete
        /\ ~db[ev.u].in_conversation

\* C17: after any /leave the user is not in the pool; a /leave by a user who is
\* not in the pool starts no write and its reply comes with no change; a row goes
\* back into the pool only by the write of a /join of that user; and the search
\* returns only users whose row is in the pool.
LeaveIdempotent ==
    [][/\ ev'.k = "leave" => ~db'[ev'.u].in_pool
       /\ \A u \in Users :
              (~db[u].in_pool /\ Pending("leave", u) = {}) =>
                  /\ Pending("leave", u)' = {}
                  /\ (ev'.k = "leave" /\ ev'.u = u) => UNCHANGED <<db, kb, h>>
       /\ \A u \in Users :
              (~db[u].in_pool /\ db'[u].in_pool) =>
                  \E s \in Pending("join", u) : h[s].pc = "upsert" /\ h'[s] # h[s]
       /\ \A s \in Slots :
              (h[s].pc = "scan" /\ h'[s].pc = "select") => db[h'[s].partner_id].in_pool]_vars

\* user 1, in the pool at first, has left it and is told so at its second /leave
SecondLeave ==
    /\ ev.k = "leave" /\ ev.t = "not_in_pool" /\ ev.u = 1
    /\ ~db[1].in_pool

\* ---------------------------------------------------------------------
\* sessions, sound and broken
\* ---------------------------------------------------------------------
\* Seeker 1 found user 2; user 2 then pressed the age keyboard it still had open
\* and found user 3.  Row 1 names 2, rows 2 and 3 name each other.
Broken ==
    [Unbound EXCEPT
        ![1] = UpsertRow(Unbound[1], Bind(2, TRUE)),
        ![2] = UpsertRow(Unbound[2], Bind(3, TRUE)),
        ![3] = UpsertRow(Unbound[3], Bind(2, FALSE))]

InitEnd ==
    /\ db \in {Paired(0), Paired(BONUS - 1), Paired(0 - BONUS), Broken}
    /\ kb = [u \in Users |-> "none"]
    /\ h = [s \in Slots |-> Idle]
    /\ ops = 0
    /\ NoLedger
    /\ ev = NoEv

NextEnd ==
    \/ \E u \in Users : end_conversation(1, u)
    \/ \E u \in Users : report_user(1, u)
    \/ \E u \in Users, unit \in Units : handle_message(1, u, unit)
    \/ \E s \in Slots : handle_message_partner(s)
    \/ \E s \in Slots : update_user_data_async_select(s)
    \/ \E s \in Slots : update_user_data_async_upsert(s)

\* one handler at a time, inside sessions
SpecEnd == InitEnd /\ [][NextEnd]_vars

\* C18: an /end replies that the conversation has ended, having reset the
\* partner's row as well, only when that row named the requester; for a partner
\* that does not point back, the reply of /end is a failure.
BrokenEndReported ==
    [][\A s \in Slots :
          (h[s].kind = "end" /\ ev'.k = "end" /\ ev'.t = "done") =>
              /\ db[h[s].partner_id].in_conversation
              /\ db[h[s].partner_id].conversation_partner = h[s].u]_vars

\* a message handler of slot s, carrying a photo or a video, takes a step
MediaStep(s) == MessageStep(s) /\ h[s].unit.type \in {"photo", "video"}

\* C20: a photo or video of the initiator is refused, with no row changed, when
\* the initiator's points are below the price, 150 for a photo and 250 for a
\* video; otherwise the first write takes the price from the initiator and the
\* second adds it to the partner.  A photo or video of the other side changes
\* no row.
MediaBilling ==
    [][\A s \in Slots : MediaStep(s) =>
          LET me == h[s]
              price == IF me.unit.type = "photo" THEN PHOTO_COST ELSE VIDEO_COST IN
          /\ me.pc = "partner" => db' = db
          /\ (me.pc = "partner" /\ ~me.is_initiator) =>
                 ev'.t \in {"forwarded", "forward_failed"} /\ ev'.n = 0
          /\ (me.pc = "partner" /\ me.is_initiator /\ db[me.u].points < price) =>
                 h'[s] = Idle /\ ev'.t = "insufficient"
          /\ (me.pc = "partner" /\ me.is_initiator /\ db[me.u].points >= price) =>
                 h'[s].pc = "select" /\ Len(h'[s].todo) = 2
          /\ (me.pc = "upsert" /\ Len(me.todo) = 2) =>
                 /\ db' = [db EXCEPT ![me.u].points = @ - price]
          /\ (me.pc = "upsert" /\ Len(me.todo) = 1) =>
                 /\ db' = [db EXCEPT ![me.partner_id].points = @ + price]
                 /\ ev'.t \in {"forwarded", "forward_failed"} /\ ev'.n = price]_vars

\* initiator 1 sent a video to 3, both having started with the registration bonus
VideoSent ==
    /\ ev.k = "message" /\ ev.t = "forwarded" /\ ev.u = 1 /\ ev.p = 3
    /\ ev.n = VIDEO_COST
    /\ db[1].points = BONUS - VIDEO_COST
    /\ db[3].points = BONUS + VIDEO_COST

\* ---------------------------------------------------------------------
\* the ledgers of database.py and of the admin tool
\* ---------------------------------------------------------------------
\* amounts an administrator may type, and character counts of a conversation
Amounts == {0 - 2, 0 - 1, 0, 1, 2}
CharCounts == {0, 1, 2}
ConversationIds == {1, 2}
LedgerUsers == {1, 3}

Min(a, b) == IF a < b THEN a ELSE b

\* a call that is not a handler of the bot: it counts as one operation
Call ==
    /\ ops < MaxOps
    /\ ops' = ops + 1
    /\ UNCHANGED <<db, kb, h, store>>

\* Database.add_points: "Add or remove points from a user"
Database_add_points(telegram_id, amount) ==
    /\ Call
    /\ sqlite' = [sqlite EXCEPT !.points[telegram_id] = @ + amount]
    /\ ev' = Ev("Database.add_points", "true", telegram_id, 0, amount)
    /\ UNCHANGED mysql

\* Database.end_conversation: "End a conversation and transfer points"
Database_end_conversation(conversation_id, char_count) ==
    /\ Call
    /\ UNCHANGED mysql
    /\ IF conversation_id \notin DOMAIN sqlite.conversations
       THEN /\ ev' = Ev("Database.end_conversation", "false", 0, 0, 0)
            /\ UNCHANGED sqlite
       ELSE LET conv == sqlite.conversations[conversation_id]
                points_to_transfer == Min(char_count, sqlite.points[conv.client_id]) IN
            /\ sqlite' = [sqlite EXCEPT
                   !.points[conv.client_id] = @ - points_to_transfer,
                   !.points[conv.partner_id] = @ + points_to_transfer,
                   !.conversations[conversation_id] =
                       [@ EXCEPT !.ended = TRUE, !.client_char_count = char_count,
                                 !.points_transferred = points_to_transfer],
                   !.status[conv.client_id] = "inactive",
                   !.status[conv.partner_id] = "inactive",
                   !.partner_id[conv.client_id] = 0,
                   !.partner_id[conv.partner_id] = 0,
                   !.conversation_count[conv.client_id] = @ + 1,
                   !.conversation_count[conv.partner_id] = @ + 1]
            /\ ev' = Ev("Database.end_conversation", "true", conv.client_id, conv.partner_id,
                        points_to_transfer)

\* AdminTool.add_points
AdminTool_add_points(user, amount) ==
    /\ Call
    /\ mysql' = [mysql EXCEPT ![user] = @ + amount]
    /\ ev' = Ev("AdminTool.add_points", "true", user, 0, amount)
    /\ UNCHANGED sqlite

\* AdminTool.remove_points
AdminTool_remove_points(user, amount) ==
    /\ Call
    /\ UNCHANGED sqlite
    /\ IF mysql[user] < amount
       THEN /\ ev' = Ev("AdminTool.remove_points", "false", user, 0, amount)
            /\ UNCHANGED mysql
       ELSE /\ mysql' = [mysql EXCEPT ![user] = @ - amount]
            /\ ev' = Ev("AdminTool.remove_points", "true", user, 0, amount)

InitLedger ==
    /\ db = Unbound
    /\ kb = [u \in Users |-> "none"]
    /\ h = [s \in Slots |-> Idle]
    /\ ops = 0
    /\ ev = NoEv
    /\ \E p \in {0, 1, BONUS} : sqlite = SqliteStarted(p)
    /\ \E p \in {0, 1, BONUS} : mysql = MysqlPoints(p)
    /\ store = NoRows

NextLedger ==
    \/ \E u \in LedgerUsers, amount \in Amounts : Database_add_points(u, amount)
    \/ \E id \in ConversationIds, n \in CharCounts : Database_end_conversation(id, n)
    \/ \E u \in LedgerUsers, amount \in Amounts : AdminTool_add_points(u, amount)
    \/ \E u \in LedgerUsers, amount \in Amounts : AdminTool_remove_points(u, amount)

SpecLedger == InitLedger /\ [][NextLedger]_vars

\* C15: ending a conversation changes nobody's points.
EndMovesNoPoints ==
    [][ev'.k = "Database.end_conversation" => sqlite'.points = sqlite.points]_vars

\* C19: no credit or debit made outside a conversation leaves a negative balance.
LedgerNonNegative ==
    (ev.k \in {"Database.add_points", "AdminTool.add_points", "AdminTool.remove_points"}) =>
        /\ sqlite.points[ev.u] >= 0
        /\ mysql[ev.u] >= 0

\* ---------------------------------------------------------------------
\* registration
\* ---------------------------------------------------------------------
\* the columns a later /start must leave alone
Standing(row) ==
    <<row.points, row.in_pool, row.in_conversation, row.conversation_partner,
      row.is_initiator>>

\* C21: the /start of a user without a row creates the row with 1000 points, out
\* of the pool and out of any conversation; while a /start of a user that has a
\* row runs, and when it only replies, that user's points, pool membership and
\* session attributes stay as they are.
BonusOnce ==
    [][\A u \in Users :
          ((ev'.k = "start" /\ ev'.u = u) \/ Pending("start", u) # {}) =>
              IF db[u].ex
              THEN Standing(db'[u]) = Standing(db[u])
              ELSE db'[u].ex =>
                       /\ db'[u].points = BONUS
                       /\ Standing(db'[u]) = Standing([NoRow EXCEPT !.points = BONUS])]_vars

\* user 1, down to its last point in a session, sent /start again under a new
\* username and has its point and its session as before
StartedAgain ==
    /\ ev.k = "start" /\ ev.t = "done" /\ ev.u = 1
    /\ db[1].points = 1
    /\ db[1].in_conversation /\ db[1].conversation_partner = 3

\* the operations C22 names, as the handlers that serve them
Guarded == {"join", "leave", "find", "end", "message"}

\* C22: a /join, /leave, /find, /end or message of a user without a row is
\* answered with "not registered" and writes nothing; and a row comes into being
\* only by the write of a /start of that user.
UnknownUser ==
    [][/\ (ev'.k \in Guarded /\ ~db[ev'.u].ex) =>
              /\ ev'.t = "not_registered"
              /\ db' = db /\ h' = h /\ kb' = kb
       /\ \A u \in Users :
              (~db[u].ex /\ db'[u].ex) => Pending("start", u) # {}]_vars

\* ---------------------------------------------------------------------
\* wrong session state
\* ---------------------------------------------------------------------
\* the replies by which /find turns a request down
FindRefusals == {"not_registered", "profile_incomplete", "not_in_pool", "already_bound"}

\* C23: a message or an /end of a user who is in no conversation is answered with
\* "not in a conversation" and changes no row; a /find of a user who is in a
\* conversation is turned down with no row and no keyboard changed, and no
\* preference button starts a search for such a user.
WrongSessionState ==
    [][\A u \in Users :
          /\ (/\ ~db[u].in_conversation
              /\ Pending("end", u) = {} /\ Pending("message", u) = {}
              /\ ev'.k \in {"end", "message"} /\ ev'.u = u) =>
                 /\ ev'.t = "not_bound"
                 /\ db' = db
          /\ db[u].in_conversation =>
                 /\ (ev'.k = "find" /\ ev'.u = u) =>
                        /\ ev'.t \in FindRefusals
                        /\ db' = db /\ kb' = kb
                 /\ \A kind \in {"gender_pref", "age_pref"} :
                        Pending(kind, u) = {} => Pending(kind, u)' = {}]_vars

\* ---------------------------------------------------------------------
\* no match
\* ---------------------------------------------------------------------
\* user c is a candidate for seeker 1 and the filter stored in the seeker's row
Eligible(c) ==
    /\ c # 1
    /\ db[c].ex /\ db[c].in_pool /\ ~db[c].in_conversation /\ db[c].profile_complete
    /\ (db[1].preferred_gender # None => db[c].gender = db[1].preferred_gender)
    /\ (db[1].preferred_age_group # None => db[c].age_group = db[1].preferred_age_group)

\* the search of slot 1 ends with this step, with a partner or without
Returns == h[1].pc \in {"find", "scan"} /\ h'[1].pc \notin {"find", "scan"}

\* C24 as stated: the search ends without a partner exactly when no user is a
\* candidate, and then changes no row.
NoMatchExactly ==
    [][Returns =>
          /\ (ev'.t = "no_match") <=> (\A c \in Users : ~Eligible(c))
          /\ ev'.t = "no_match" => db' = db]_vars

\* C24, for the seeker the search accepts: a seeker without a row or out of the
\* pool gets no partner whoever is a candidate; for a seeker that is in the pool
\* the search ends without a partner exactly when no user is a candidate; and a
\* search that ends without a partner changes no row.
NoMatchInPool ==
    [][Returns =>
          /\ (~db[1].ex \/ ~db[1].in_pool) => ev'.t = "no_match"
          /\ (db[1].ex /\ db[1].in_pool) =>
                 ((ev'.t = "no_match") <=> (\A c \in Users : ~Eligible(c)))
          /\ ev'.t = "no_match" => db' = db]_vars

\* the seeker is in the pool and asked for a woman aged 18-24; users 2 and 3 are
\* free and in the pool, one of the other gender and one of the other age group,
\* and the search has ended without a partner
NobodyFits ==
    /\ ev.k = "age_pref" /\ ev.t = "no_match"
    /\ db[1].in_pool
    /\ db[1].preferred_gender = "Female" /\ db[1].preferred_age_group = "18-24"
    /\ \A c \in {2, 3} : db[c].in_pool /\ ~db[c].in_conversation /\ db[c].profile_complete
    /\ db[2].gender = "Male" /\ db[2].age_group = "18-24"
    /\ db[3].gender = "Female" /\ db[3].age_group = "25-34"

\* ---------------------------------------------------------------------
\* concurrent handlers
\* ---------------------------------------------------------------------
\* the message handler of slot s writes a balance with this step
BalanceWrite(s) == h[s].kind = "message" /\ h[s].pc = "upsert" /\ h'[s] # h[s]

\* C25: every balance a message handler writes is the balance the row holds at
\* that moment, less the cost for the sender and plus the cost for the partner;
\* so the balances after two transfers are those of the two made one after the
\* other, and no write puts back a balance read before another handler's write.
TransfersSerialized ==
    [][\A s \in Slots : BalanceWrite(s) =>
          LET to == Head(h[s].todo).t IN
          db'[to].points = db[to].points + (IF to = h[s].u THEN 0 - h[s].n ELSE h[s].n)]_vars

\* the columns of a row
Columns == DOMAIN NoRow \ {"ex"}

\* the handler of slot s makes the write of an update_user_data_async
PutWrite(s) == h[s].pc = "upsert" /\ h'[s] # h[s]

\* C26: the write of an update to a row that exists leaves every column that is
\* not among the update's fields as the row holds it at that moment, whatever
\* was written to the row since the update read it.
PartialUpdate ==
    [][\A s \in Slots : PutWrite(s) =>
          LET call == Head(h[s].todo) IN
          db[call.t].ex =>
              \A k \in Columns \ DOMAIN call.f : db'[call.t][k] = db[call.t][k]]_vars

\* the handlers of the pool and of pairing
PoolAndPairing == {"join", "leave", "gender_pref", "age_pref"}

\* C27: no step of a /join, a /leave or a preference button with its search and
\* pairing changes the points of any user, whatever the other handler in flight
\* has written meanwhile.
LedgerOnly ==
    [][\A s \in Slots :
          (h[s].kind \in PoolAndPairing /\ h'[s] # h[s]) =>
              \A u \in Users : db'[u].points = db[u].points]_vars

\* ---------------------------------------------------------------------
\* broken sessions and the order of billing and forwarding
\* ---------------------------------------------------------------------
\* C28: while a message handler runs for a sender whose partner's row does not
\* name the sender back, no points change and nothing goes to forwarding, and
\* when the handler ends the sender is in no conversation any more.
BrokenSend ==
    [][\A s \in Slots :
          (MessageStep(s) /\ ~Mutual(h[s].u, h[s].partner_id)) =>
              /\ \A v \in Users : db'[v].points = db[v].points
              /\ ev'.t \notin {"forwarded", "forward_failed"}
              /\ h'[s].kind = "idle" => ~db'[h[s].u].in_conversation]_vars

\* the unit went to context.bot.send_message, send_photo or send_video
Sent == ev'.k = "message" /\ ev'.t \in {"forwarded", "forward_failed"}

\* C29: a unit of the initiator goes to forwarding only with the step that makes
\* the second of its two writes, the credit of the partner, the debit of the
\* initiator having been written before; and a unit whose cost is more than the
\* initiator's points ends the handler with the refusal, nothing written and
\* nothing forwarded.
BillBeforeForward ==
    [][\A s \in Slots : (MessageStep(s) /\ h[s].is_initiator) =>
          LET me == h[s]
              cost == Cost(me.unit, TRUE) IN
          /\ Sent =>
                 /\ me.pc = "upsert" /\ Len(me.todo) = 1
                 /\ Head(me.todo).t = me.partner_id
                 /\ db'[me.partner_id].points = db[me.partner_id].points + cost
                 /\ db'[me.u].points = me.user_points - cost
          /\ (me.pc = "partner" /\ me.user_points < cost) =>
                 /\ ev'.t = "insufficient"
                 /\ db' = db
                 /\ h'[s] = Idle]_vars

\* initiator 1 sent a photo to 3, and it was forwarded with both rows billed
PhotoBilled ==
    /\ ev.k = "message" /\ ev.t = "forwarded" /\ ev.u = 1 /\ ev.p = 3
    /\ ev.n = PHOTO_COST
    /\ db[1].points = BONUS - PHOTO_COST
    /\ db[3].points = BONUS + PHOTO_COST

NoRefund ==
    [][\A s \in Slots : (MessageStep(s) /\ ev'.t = "forward_failed") =>
          LET me == h[s]
              N == IF me.unit.type = "text" THEN me.unit.len
                   ELSE IF me.unit.type = "photo" THEN PHOTO_COST ELSE VIDEO_COST IN
          /\ h'[s] = Idle
          /\ me.is_initiator =>
                 /\ ev'.n = N
                 /\ db'[me.u].points = me.user_points - N
                 /\ db'[me.partner_id].points = db[me.partner_id].points + N
                 /\ OthersUnchanged({me.partner_id})
          /\ ~me.is_initiator => db' = db]_vars

\* initiator 1 sent "hi" to 3; the send failed and both rows are billed
FailedAfterBilling ==
    /\ ev.k = "message" /\ ev.t = "forward_failed" /\ ev.u = 1 /\ ev.p = 3 /\ ev.n = 2
    /\ db[1].points = BONUS - 2
    /\ db[3].points = BONUS + 2
    /\ Quiescent

\* C32: once a failed send has been reported and the handler is done, neither
\* the sender nor the partner it sent to is in a conversation or names a partner.
FailureEndsSession ==
    (ev.k = "message" /\ ev.t = "forward_failed" /\ Quiescent) =>
        \A v \in {ev.u, ev.p} :
            ~db[v].in_conversation /\ db[v].conversation_partner = 0

\* ---------------------------------------------------------------------
\* the conversation table
\* ---------------------------------------------------------------------
\* C33: a call of Database.end_conversation for a conversation that has already
\* been ended changes no points and no conversation count.
NoDoubleSettlement ==
    [][\A id \in DOMAIN sqlite.conversations :
          (/\ sqlite.conversations[id].ended
           /\ ev'.k = "Database.end_conversation"
           /\ ev'.u = sqlite.conversations[id].client_id) =>
              /\ sqlite'.points = sqlite.points
              /\ sqlite'.conversation_count = sqlite.conversation_count]_vars

\* ---------------------------------------------------------------------
\* two searches over the same rows
\* ---------------------------------------------------------------------
\* the rows of the users other than the requester: none, or a registered user
\* with a complete profile, in or out of the pool
TwiceRows ==
    {NoRow} \cup
    {[FreshRow(g) EXCEPT !.age_group = a, !.in_pool = ip] :
        g \in Gender, a \in AgeGroup, ip \in BOOLEAN}

\* user 1 has pressed an age button twice and both preferences are stored: two
\* searches are next, and nothing else runs
InitTwice ==
    /\ db \in {d \in [Users -> TwiceRows \cup RequesterRows] :
                  d[1] \in RequesterRows /\ \A u \in Users \ {1} : d[u] \in TwiceRows}
    /\ kb = [u \in Users |-> "none"]
    /\ h = [s \in Slots |-> [Idle EXCEPT !.kind = "age_pref", !.u = 1, !.pc = "find"]]
    /\ ops = 0
    /\ NoLedger
    /\ ev = NoEv

NextTwice ==
    \/ \E s \in Slots : find_partner_async_user(s)
    \/ \E s \in Slots : find_partner_async_scan(s)

SpecTwice == InitTwice /\ [][NextTwice]_vars

\* the search of slot s ends with this step
Returning(s) == h[s].pc \in {"find", "scan"} /\ h'[s].pc \notin {"find", "scan"}

\* C34 as stated: two searches over the same rows return the same user.
SameResult ==
    (h[1].pc = "select" /\ h[2].pc = "select") => h[1].partner_id = h[2].partner_id

\* C34, with the result read as the spec defines it ("some qualifying candidate,
\* or none"): no step of a search changes any row; a search that returns a user
\* returns a candidate, and a search that returns nobody does so because the
\* seeker has no row, is out of the pool or has no candidate.  Both depend on
\* the rows alone, so two searches over the same rows agree on whether somebody
\* is found and on the candidates he is taken from.
SearchReadOnly ==
    [][/\ db' = db
       /\ \A s \in Slots : Returning(s) =>
              IF h'[s].pc = "select"
              THEN /\ Eligible(h'[s].partner_id)
                   /\ db[1].ex /\ db[1].in_pool
              ELSE \/ ~db[1].ex
                   \/ ~db[1].in_pool
                   \/ \A c \in Users : ~Eligible(c)]_vars

\* both searches have returned, one user 2 and the other user 3, over rows in
\* which both are candidates
TwoSearches ==
    /\ h[1].pc = "select" /\ h[2].pc = "select"
    /\ h[1].partner_id = 2 /\ h[2].partner_id = 3
    /\ Eligible(2) /\ Eligible(3)

\* ---------------------------------------------------------------------
\* termination
\* ---------------------------------------------------------------------
\* the next statement of the handler in slot s
HandlerStep(s) ==
    \/ update_user_data_async_select(s)
    \/ update_user_data_async_upsert(s)
    \/ find_partner_async_user(s)
    \/ find_partner_async_scan(s)
    \/ handle_message_partner(s)

\* handlers interleave at their awaits, and every awaited statement returns
SpecLive ==
    /\ Init
    /\ [][Next(Cardinality(Slots))]_vars
    /\ \A s \in Slots : WF_vars(HandlerStep(s))

\* C35: every handler that has started comes to its end.
Terminates == \A s \in Slots : (h[s].kind # "idle") ~> (h[s].kind = "idle")

\* seekers 1 and 2 are both in the middle of a pairing, each with the other as
\* the partner it found
CrossedPairings ==
    /\ h[1].kind = "age_pref" /\ h[2].kind = "age_pref"
    /\ h[1].partner_id = h[2].u
    /\ h[2].partner_id = h[1].u

\* ---------------------------------------------------------------------
\* self-pairing and third parties
\* ---------------------------------------------------------------------
\* C36: no row names its own user as the partner, and no search has returned
\* the requester itself.
NoSelfPairing ==
    /\ \A u \in Users : db[u].conversation_partner # u
    /\ \A s \in Slots : h[s].kind = "age_pref" => h[s].partner_id # h[s].u

\* seeker 2 was matched while it met every test of the search itself: in the
\* pool, not in a conversation before, profile complete
MatchedWithOther ==
    /\ ev.k = "age_pref" /\ ev.t = "matched" /\ ev.u = 2
    /\ db[2].in_pool /\ db[2].profile_complete
    /\ db[2].in_conversation /\ db[2].conversation_partner = ev.p
    /\ ev.p \in Users \ {2}

\* the session attributes of a row
Session(row) == <<row.in_conversation, row.conversation_partner, row.is_initiator>>

\* C37: a step of a pairing, of a message handler or of an /end changes no row
\* but those of its user and of that user's partner; and a step of an /end
\* changes the session attributes of no other user who is in a conversation
\* with somebody other than the requester.
ThirdParties ==
    [][\A s \in Slots :
          (h[s].kind \in {"age_pref", "message", "end"} /\ h'[s] # h[s]) =>
              /\ OthersUnchanged({h[s].u, h[s].partner_id})
              /\ h[s].kind = "end" =>
                     \A c \in Users \ {h[s].u} :
                         (db[c].in_conversation /\ db[c].conversation_partner # h[s].u) =>
                             Session(db'[c]) = Session(db[c])]_vars

\* ---------------------------------------------------------------------
\* /end and /report
\* ---------------------------------------------------------------------
\* C38: no step of an /end or a /report, and no reply of one, changes the
\* in_pool flag of any user.
EndKeepsPool ==
    [][((\E s \in Slots : h[s].kind \in {"end", "report"} /\ h'[s] # h[s])
          \/ ev'.k \in {"end", "report"}) =>
             \A u \in Users : db'[u].in_pool = db[u].in_pool]_vars

\* user 1 had left the pool during its session and then ended it: it is still
\* out of the pool, and its partner still in
EndedOutOfPool ==
    /\ ev.k = "end" /\ ev.t = "done" /\ ev.u = 1 /\ ev.p = 3
    /\ ~db[1].in_pool /\ db[3].in_pool
    /\ ~db[1].in_conversation /\ ~db[3].in_conversation

\* C39: a /report that went through leaves its user and the partner it named
\* in no conversation and with no partner; no step of a /report changes any
\* points; and a /report of a user who is in no conversation is answered with
\* no row changed.
ReportLikeEnd ==
    [][/\ (ev'.k = "report" /\ ev'.t = "done") =>
              \A v \in {ev'.u, ev'.p} :
                  ~db'[v].in_conversation /\ db'[v].conversation_partner = 0
       /\ (\E s \in Slots : h[s].kind = "report" /\ h'[s] # h[s]) =>
              \A v \in Users : db'[v].points = db[v].points
       /\ \A u \in Users :
              (/\ ~db[u].in_conversation /\ Pending("report", u) = {}
               /\ ev'.k = "report" /\ ev'.u = u) =>
                  /\ ev'.t = "not_bound"
                  /\ db' = db]_vars

\* user 3, paid 999 points by user 1, reported it: both are unbound and the
\* points are where they were
Reported ==
    /\ ev.k = "report" /\ ev.t = "done" /\ ev.u = 3 /\ ev.p = 1
    /\ ~db[1].in_conversation /\ ~db[3].in_conversation
    /\ db[1].points = 1 /\ db[3].points = 2 * BONUS - 1

\* ---------------------------------------------------------------------
\* the conversation_partner column of the profile stores
\* ---------------------------------------------------------------------
\* A value of the column is followed as the text Python's str() gives it, and None
\* and SQL NULL as NULL.  The partner a handler passes is None or a user id.
IdText == {ToString(p) : p \in Users}
Passed == {NULL} \cup IdText

\* Python's str(value): "None" for None
str(value) == IF value = NULL THEN "None" ELSE value

\* Python's int(text): the number, or ValueError (0 here) when text is no numeral
int(text) == IF text \in IdText THEN CHOOSE p \in Users : ToString(p) = text ELSE 0

\* s.lower() == "none"
LowerIsNone(s) == s \in {"None", "none", "NONE"}

\* safe_int: None for None, "" and "none", else the number, None when int() raises
safe_int(value) ==
    IF value = NULL THEN NULL
    ELSE IF value = "" \/ LowerIsNone(value) THEN NULL
    ELSE IF value \in IdText THEN value
    ELSE NULL

\* what a read hands back: the partner's id, or 0 for a value that is falsy
Partner(value) == IF value \in IdText THEN int(value) ELSE 0

\* one call of a store function: it counts as one operation and touches no other table
StoreCall ==
    /\ ops < MaxOps
    /\ ops' = ops + 1
    /\ UNCHANGED <<db, kb, h, sqlite, mysql>>

\* lomi.py get_user_data: a truthy column value goes through int(), and a ValueError
\* is not among the exceptions the function catches
get_user_data_raises(user_id) ==
    LET text == store.lomi[user_id] IN text \notin {NULL, ""} /\ text \notin IdText

\* lomi.py get_user_data
get_user_data(user_id) ==
    /\ StoreCall
    /\ ev' = IF get_user_data_raises(user_id)
             THEN Ev("get_user_data", "ValueError", user_id, 0, 0)
             ELSE Ev("get_user_data", "done", user_id, Partner(store.lomi[user_id]), 0)
    /\ UNCHANGED store

\* lomi.py update_user_data with conversation_partner among the updates: the current
\* row is read first, then the whole row is replaced with str() of the partner
update_user_data(user_id, conversation_partner) ==
    /\ StoreCall
    /\ IF get_user_data_raises(user_id)
       THEN /\ ev' = Ev("update_user_data", "ValueError", user_id,
                        Partner(conversation_partner), 0)
            /\ UNCHANGED store
       ELSE /\ store' = [store EXCEPT !.lomi[user_id] = str(conversation_partner)]
            /\ ev' = Ev("update_user_data", "done", user_id,
                        Partner(conversation_partner), 0)

\* app.py get_user_data_async, the column as stored: it goes through safe_int
get_user_data_async_partner(user_id) ==
    /\ StoreCall
    /\ ev' = Ev("get_user_data_async", "done", user_id,
                Partner(safe_int(store.app[user_id])), 0)
    /\ UNCHANGED store

\* app.py update_user_data_async with conversation_partner among the updates: NULL
\* when safe_int gives None, else str() of the number
update_user_data_async(user_id, conversation_partner) ==
    /\ StoreCall
    /\ store' = [store EXCEPT !.app[user_id] =
                     IF safe_int(conversation_partner) = NULL THEN NULL
                     ELSE str(safe_int(conversation_partner))]
    /\ ev' = Ev("update_user_data_async", "done", user_id,
                Partner(conversation_partner), 0)

\* nobody has a row yet in either store
InitStore ==
    /\ db = Unbound
    /\ kb = [u \in Users |-> "none"]
    /\ h = [s \in Slots |-> Idle]
    /\ ops = 0
    /\ ev = NoEv
    /\ NoLedger

NextStore ==
    \/ \E u \in Users : \E partner \in Passed : update_user_data(u, partner)
    \/ \E u \in Users : get_user_data(u)
    \/ \E u \in Users : \E partner \in Passed : update_user_data_async(u, partner)
    \/ \E u \in Users : get_user_data_async_partner(u)

SpecStore == InitStore /\ [][NextStore]_vars

\* the read that answers a write of the same store
ReadOf(write) ==
    IF write = "update_user_data" THEN "get_user_data" ELSE "get_user_data_async"

\* C40: in either profile store, when a user's conversation partner has been written
\* as an id p or as None and the user is read back next, the read does not fail and
\* yields p, respectively no partner.
PartnerRoundTrip ==
    [][(/\ ev.k \in {"update_user_data", "update_user_data_async"}
        /\ ev.t = "done"
        /\ ev'.k = ReadOf(ev.k)
        /\ ev'.u = ev.u)
       => (ev'.t = "done" /\ ev'.p = ev.p)]_vars

====
